---- MODULE Spec2Model ----
(***************************************************************************)
(* Model of proteomics_explorer/explorer.py (class ProteomicsExplorer):    *)
(* the file selection of load, the cache-aware download, the format        *)
(* inference of _read_file, clear_cache and the constructor.               *)
(*                                                                         *)
(* File names are sequences of one-character strings, so that lower(),     *)
(* endswith() and the substring test `in` are computed, not assumed.       *)
(***************************************************************************)
EXTENDS Integers, Sequences, FiniteSets, TLC

VARIABLES
    \* ---- the selection step of load, run on its own (SpecSelect)
    files,          \* the listing returned by the file-listing request
    file_pattern,   \* load's optional file_pattern argument
    sel_pc,         \* "start" before the selection step, "done" after it
    best,           \* outcome of the selection step
    \* ---- one explorer object and the file system (Spec)
    use_cache,      \* self.use_cache, fixed by the constructor
    root_exists,    \* whether CACHE_DIR exists
    cache,          \* entries of CACHE_DIR: file name -> content or Absent
    temps,          \* the temporary files that exist (their ids)
    current_data,   \* self.current_data
    last,           \* what the last operation did (its observable outcome)
    partial,        \* file name -> content left by a failed download, until cleared
    \* ---- two concurrent _download_file executions on one cache path (SpecRace)
    pc,             \* writer -> position in _download_file
    body,           \* writer -> response body, a sequence of chunks
    off,            \* writer -> offset of its open file object, in chunks
    disk,           \* the cache path: [exists, data]
    order,          \* writers in the order in which they returned
    wdone,          \* writers in the order in which they wrote their last chunk
    alone           \* writer -> nobody else truncated or wrote since it opened

sel_vars  == <<files, file_pattern, sel_pc, best>>
main_vars == <<use_cache, root_exists, cache, temps, current_data, last, partial>>
race_vars == <<pc, body, off, disk, order, wdone, alone>>
vars      == <<sel_vars, main_vars, race_vars>>

----------------------------------------------------------------------------
(* Bounds of the model *)

\* longest file listing tried by the selection step
MaxFiles == 3
\* number of chunks of a remote file's body
MaxChunks == 2
\* number of temporary files that may exist at once
MaxTemps == 2
\* longest response body in the race of two writers
MaxBody == 2

(* Program constants *)

\* load: f.get('fileSizeBytes', 0) > 50000
MinTableSize == 50000

----------------------------------------------------------------------------
(* Strings *)

Upper == <<"A", "B", "C", "D", "E", "F", "G", "H", "I", "J", "K", "L", "M",
           "N", "O", "P", "Q", "R", "S", "T", "U", "V", "W", "X", "Y", "Z">>
LowerCase == <<"a", "b", "c", "d", "e", "f", "g", "h", "i", "j", "k", "l", "m",
               "n", "o", "p", "q", "r", "s", "t", "u", "v", "w", "x", "y", "z">>

\* str.lower() on one character
LowerChar(c) ==
    IF \E i \in 1..Len(Upper) : Upper[i] = c
    THEN LowerCase[CHOOSE i \in 1..Len(Upper) : Upper[i] = c]
    ELSE c

\* str.lower()
Lower(s) == [i \in 1..Len(s) |-> LowerChar(s[i])]

\* s.endswith(suf)
EndsWith(s, suf) ==
    /\ Len(s) >= Len(suf)
    /\ SubSeq(s, Len(s) - Len(suf) + 1, Len(s)) = suf

\* s.endswith(tuple of suffixes)
EndsWithAny(s, sufs) == \E i \in 1..Len(sufs) : EndsWith(s, sufs[i])

\* sub in s
Contains(sub, s) ==
    \E i \in 1..(Len(s) - Len(sub) + 1) : SubSeq(s, i, i + Len(sub) - 1) = sub

----------------------------------------------------------------------------
(* The selection step of load *)

table_exts == << <<".", "t", "x", "t">>, <<".", "c", "s", "v">>,
                 <<".", "t", "s", "v">>, <<".", "x", "l", "s", "x">>,
                 <<".", "t", "x", "t", ".", "g", "z">>,
                 <<".", "t", "s", "v", ".", "g", "z">>,
                 <<".", "c", "s", "v", ".", "g", "z">> >>

priority_keywords == << <<"p", "r", "o", "t", "e", "i", "n">>,
                        <<"a", "b", "u", "n", "d", "a", "n", "c", "e">>,
                        <<"i", "n", "t", "e", "n", "s", "i", "t", "y">>,
                        <<"q", "u", "a", "n", "t">>,
                        <<"r", "e", "p", "o", "r", "t">>,
                        <<"r", "e", "s", "u", "l", "t">>,
                        <<"m", "a", "x", "q", "u", "a", "n", "t">>,
                        <<"d", "i", "a", "n", "n">> >>

\* a file descriptor of the listing
File(name, size, link) ==
    [fileName |-> name, fileSizeBytes |-> size, downloadLink |-> link]

\* Python's None where a descriptor is expected
NoFile == File(<<>>, 0, "none")

\* file_pattern=None
NoPattern == [given |-> FALSE, text |-> <<>>]
Pattern(s) == [given |-> TRUE, text |-> s]

\* `if file_pattern:` -- None and the empty string are both false
Truthy(p) == p.given /\ p.text # <<>>

\* the test of the first list comprehension of load
Eligible(f) ==
    /\ EndsWithAny(Lower(f.fileName), table_exts)
    /\ f.fileSizeBytes > MinTableSize

\* candidates = [f for f in files if ...]
Candidates(fs) == SelectSeq(fs, Eligible)

\* pattern_match = [f for f in candidates if file_pattern.lower() in f['fileName'].lower()]
PatternMatch(cands, p) ==
    SelectSeq(cands, LAMBDA f : Contains(Lower(p.text), Lower(f.fileName)))

\* mutant: the pattern is a hard filter
NarrowAlways(cands, p) ==
    IF Truthy(p) THEN PatternMatch(cands, p) ELSE cands

\* if file_pattern: ... if pattern_match: candidates = pattern_match
Narrow(cands, p) ==
    IF Truthy(p) /\ PatternMatch(cands, p) # <<>>
    THEN PatternMatch(cands, p)
    ELSE cands

\* mutant: the files are scanned in the outer loop, the keywords in the inner one
KeywordPassFileFirst(cands, k) ==
    LET m == SelectSeq(cands, LAMBDA f :
                 \E j \in k..Len(priority_keywords) :
                     Contains(priority_keywords[j], Lower(f.fileName)))
    IN  IF m # <<>> THEN Head(m) ELSE NoFile

\* for kw in priority_keywords: for f in candidates: if kw in name: best = f; break
RECURSIVE KeywordPass(_, _)
KeywordPass(cands, k) ==
    IF k > Len(priority_keywords) THEN NoFile
    ELSE LET m == SelectSeq(cands, LAMBDA f :
                      Contains(priority_keywords[k], Lower(f.fileName)))
         IN  IF m # <<>> THEN Head(m) ELSE KeywordPass(cands, k + 1)

\* mutant: a later file of equal size replaces the maximum found so far
RECURSIVE MaxBySizeLast(_)
MaxBySizeLast(cands) ==
    IF cands = <<>> THEN NoFile
    ELSE IF Len(cands) = 1 THEN cands[1]
    ELSE LET m == MaxBySizeLast(SubSeq(cands, 1, Len(cands) - 1))
             f == cands[Len(cands)]
         IN  IF f.fileSizeBytes >= m.fileSizeBytes THEN f ELSE m

\* max(candidates, key=lambda x: x['fileSizeBytes']): the first maximal element
RECURSIVE MaxBySize(_)
MaxBySize(cands) ==
    IF cands = <<>> THEN NoFile  \* max() of an empty list raises ValueError
    ELSE IF Len(cands) = 1 THEN cands[1]
    ELSE LET m == MaxBySize(SubSeq(cands, 1, Len(cands) - 1))
             f == cands[Len(cands)]
         IN  IF f.fileSizeBytes > m.fileSizeBytes THEN f ELSE m

\* lines 153-184 of load: the chosen descriptor, or the FileNotFoundError
Select(fs, p) ==
    IF Candidates(fs) = <<>>
    THEN [kind |-> "FileNotFoundError", file |-> NoFile]
    ELSE LET cands == Narrow(Candidates(fs), p)
             kw    == KeywordPass(cands, 1)
             chosen == IF kw # NoFile THEN kw ELSE MaxBySize(cands)
         IN  IF chosen = NoFile
             THEN [kind |-> "ValueError", file |-> NoFile]
             ELSE [kind |-> "ok", file |-> chosen]

----------------------------------------------------------------------------
(* Format inference of _read_file *)

gz_ext   == <<".", "g", "z">>
tab_exts == << <<".", "t", "x", "t">>, <<".", "t", "s", "v">> >>
csv_ext  == <<".", "c", "s", "v">>
xl_exts  == << <<".", "x", "l", "s", "x">>, <<".", "x", "l", "s">> >>

\* the second if-chain of _read_file, on the (possibly stripped) lower-case name
PlainFormat(name) ==
    IF EndsWithAny(name, tab_exts) THEN "tab"
    ELSE IF EndsWith(name, csv_ext) THEN "csv"
    ELSE IF EndsWithAny(name, xl_exts) THEN "excel"
    ELSE "tab_default"

\* _read_file: how the file at a path with this name is parsed
ReadFormat(path_name) ==
    LET name == Lower(path_name)
    IN  IF EndsWith(name, gz_ext)
        THEN LET stripped == SubSeq(name, 1, Len(name) - 3)
             IN  IF EndsWithAny(stripped, tab_exts) THEN "gz_tab"
                 ELSE IF EndsWith(stripped, csv_ext) THEN "gz_csv"
                 ELSE PlainFormat(stripped)
        ELSE PlainFormat(name)

----------------------------------------------------------------------------
(* Inputs of the selection step *)

Pool == {
    File(<<"Q", "u", "a", "n", "t", ".", "C", "S", "V">>, 60000, "u3"),
    File(<<"d", "a", "t", "a", ".", "t", "x", "t", ".", "g", "z">>, 70000, "u4"),
    File(<<"b", "i", "g", ".", "x", "l", "s", "x">>, 70000, "u5"),
    File(<<"o", "l", "d", ".", "x", "l", "s">>, 100000, "u6"),
    File(<<"r", "e", "p", "o", "r", "t", ".", "c", "s", "v">>, 50000, "u7"),
    File(<<"d", "i", "a", "n", "n", "_", "r", "e", "s", "u", "l", "t", ".", "t", "s", "v">>, 300000, "u8"),
    File(<<"a", ".", "c", "s", "v">>, 50001, "u9") }

Listings == UNION {[1..n -> Pool] : n \in 0..MaxFiles}

Patterns == { NoPattern, Pattern(<<>>), Pattern(<<"q", "U", "A">>),
              Pattern(<<"z", "z", "z">>), Pattern(<<"x", "l", "s">>) }

----------------------------------------------------------------------------
(* Files, paths and tables *)

\* a file that does not exist
Absent == [exists |-> FALSE, data |-> <<>>]
\* a file that exists with this content (a sequence of chunks)
Present(d) == [exists |-> TRUE, data |-> d]

\* the body served at a download link: MaxChunks chunks of (at most) 8192 bytes
Body(link) == [i \in 1..MaxChunks |-> [src |-> link, idx |-> i]]

\* self.current_data = None
NoTable == [format |-> "none", data |-> <<>>]

NoPath == [kind |-> "none", name |-> <<>>, id |-> 0]
\* self.CACHE_DIR / filename
CachePath(filename) == [kind |-> "cache", name |-> filename, id |-> 0]
\* Path(tempfile.mktemp()): a fresh name without any suffix
TempIds == 1..MaxTemps
TempPath(id) ==
    [kind |-> "temp", name |-> <<"t", "m", "p", ToString(id)>>, id |-> id]

ProteinTSV == <<"P", "r", "o", "t", "e", "i", "n", ".", "T", "S", "V">>
BigXlsx    == <<"b", "i", "g", ".", "x", "l", "s", "x">>

\* answers of the file-listing request (GET .../file/byProject?accession=...)
ListingResponses == {
    [status |-> 404, files |-> <<>>],
    [status |-> 200, files |-> <<
        File(<<"r", "e", "a", "d", "m", "e", ".", "t", "x", "t">>, 500, "u0"),
        File(ProteinTSV, 200000, "u1"),
        File(<<"r", "a", "w", ".", "z", "i", "p">>, 900000, "u2") >>],
    [status |-> 200, files |-> <<
        File(<<"r", "a", "w", ".", "z", "i", "p">>, 900000, "u2"),
        File(<<"o", "l", "d", ".", "x", "l", "s">>, 100000, "u6"),
        File(<<"r", "e", "p", "o", "r", "t", ".", "c", "s", "v">>, 50000, "u7") >>],
    [status |-> 200, files |-> <<
        File(ProteinTSV, 200000, "u10"),
        File(BigXlsx, 70000, "u5") >>] }

LoadPatterns == { NoPattern, Pattern(<<"x", "l", "s">>) }

\* the selection step of load on each of these answers
Selected == [r \in ListingResponses |-> [p \in LoadPatterns |-> Select(r.files, p)]]

\* the descriptors load can hand to _download_file, and the names of their
\* cache entries
Descriptors == {Selected[r][p].file : r \in ListingResponses, p \in LoadPatterns}
               \ {NoFile}
CacheNames  == {f.fileName : f \in Descriptors}

\* how _read_file parses the file at each path
Formats == [path \in {CachePath(n) : n \in CacheNames} \cup {TempPath(id) : id \in TempIds}
            |-> ReadFormat(path.name)]

\* how a transfer goes: the response status, and the chunks that arrive
\* before the stream ends (all MaxChunks of them) or breaks (fewer)
Transfers == {[status_ok |-> FALSE, chunks |-> 0]}
             \cup {[status_ok |-> TRUE, chunks |-> k] : k \in 0..MaxChunks}

----------------------------------------------------------------------------
(* _download_file *)

\* what a call of _download_file did and left behind: the cache entries c,
\* the temporary files t, and the content found at the returned path
Download(outcome, hit, net, path, c, t, content) ==
    [outcome |-> outcome, hit |-> hit, net |-> net, path |-> path,
     cache |-> c, temps |-> t, content |-> content]

\* the chunks written before the stream ended or broke
Written(f, tr) == Present(SubSeq(Body(f.downloadLink), 1, tr.chunks))

\* the end of a transfer into save_path: return it, or raise
Streamed(f, tr, save_path, c, t) ==
    IF tr.chunks = MaxChunks
    THEN Download("ok", FALSE, 1, save_path, c, t, Written(f, tr))
    ELSE Download("DownloadError", FALSE, 1, NoPath, c, t, Absent)

\* mutant: the cache is not consulted, every call transfers
DownloadFileNoCheck(uc, rootx, c, t, f, tr, tid) ==
    IF ~tr.status_ok
    THEN Download("DownloadError", FALSE, 1, NoPath, c, t, Absent)
    ELSE IF uc
    THEN Streamed(f, tr, CachePath(f.fileName),
                  [c EXCEPT ![f.fileName] = Written(f, tr)], t)
    ELSE Streamed(f, tr, TempPath(tid), c, t \cup {tid})

\* mutant: the destination of a broken transfer is removed again
DownloadFileCleanup(uc, rootx, c, t, f, tr, tid) ==
    IF uc /\ rootx /\ c[f.fileName].exists
    THEN Download("ok", TRUE, 0, CachePath(f.fileName), c, t, c[f.fileName])
    ELSE IF ~tr.status_ok
    THEN Download("DownloadError", FALSE, 1, NoPath, c, t, Absent)
    ELSE IF uc
    THEN Streamed(f, tr, CachePath(f.fileName),
                  [c EXCEPT ![f.fileName] =
                      IF tr.chunks = MaxChunks THEN Written(f, tr) ELSE Absent], t)
    ELSE Streamed(f, tr, TempPath(tid), c,
                  IF tr.chunks = MaxChunks THEN t \cup {tid} ELSE t)

\* mutant: the cache is used whatever use_cache says
DownloadFileAlwaysCache(uc, rootx, c, t, f, tr, tid) ==
    IF rootx /\ c[f.fileName].exists
    THEN Download("ok", TRUE, 0, CachePath(f.fileName), c, t, c[f.fileName])
    ELSE IF ~tr.status_ok
    THEN Download("DownloadError", FALSE, 1, NoPath, c, t, Absent)
    ELSE IF rootx
    THEN Streamed(f, tr, CachePath(f.fileName),
                  [c EXCEPT ![f.fileName] = Written(f, tr)], t)
    ELSE Streamed(f, tr, TempPath(tid), c, t \cup {tid})

\* _download_file(url, filename) with self.use_cache = uc, on a file system
\* with cache entries c (rootx: CACHE_DIR exists) and temporary files t;
\* tr is how the transfer goes, tid the name tempfile.mktemp() returns
DownloadFile(uc, rootx, c, t, f, tr, tid) ==
    IF uc /\ rootx /\ c[f.fileName].exists
    THEN \* cache hit: return cache_path, no request
         Download("ok", TRUE, 0, CachePath(f.fileName), c, t, c[f.fileName])
    ELSE IF ~tr.status_ok
    THEN \* requests.get / raise_for_status raise before open()
         Download("DownloadError", FALSE, 1, NoPath, c, t, Absent)
    ELSE IF uc /\ ~rootx
    THEN \* open() of a path in a directory that does not exist
         Download("OSError", FALSE, 1, NoPath, c, t, Absent)
    ELSE IF uc
    THEN \* open(cache_path, 'wb') truncates, the chunks are written in order;
         \* a break of the stream leaves what was written
         Streamed(f, tr, CachePath(f.fileName),
                  [c EXCEPT ![f.fileName] = Written(f, tr)], t)
    ELSE Streamed(f, tr, TempPath(tid), c, t \cup {tid})

----------------------------------------------------------------------------
(* One explorer object: constructor, load, _download_file, clear_cache *)

NoEntries == [n \in CacheNames |-> Absent]

\* no listing request was made
NoResp == [status |-> 0, files |-> <<>>]

\* the record of an operation: which one, how it ended, the answer of its
\* listing request, and for its download step the descriptor, whether it
\* returned, whether it was a cache hit, the number of download requests and
\* the returned path; removed counts the entries a clear_cache deleted; tick
\* tells one operation from the next
Op(op, outcome, resp, f, returned, hit, net, path) ==
    [op |-> op, outcome |-> outcome, resp |-> resp, file |-> f,
     returned |-> returned, hit |-> hit, net |-> net, path |-> path,
     removed |-> 0, tick |-> 1 - last.tick]

NoDownload(op, outcome, resp) ==
    Op(op, outcome, resp, NoFile, FALSE, FALSE, 0, NoPath)

\* the transfer of this download step broke after open() and before the end
Broke(d, tr) == d.net = 1 /\ tr.status_ok /\ tr.chunks < MaxChunks

\* the ghost record of what broken transfers left in the cache root
Leftovers(d, f, tr) ==
    IF use_cache /\ root_exists /\ Broke(d, tr)
    THEN [partial EXCEPT ![f.fileName] = Written(f, tr)]
    ELSE partial

\* a name tempfile.mktemp() can return: one no existing file has
FreeTemp(tid) == tid \notin temps

\* a direct call of _download_file for a descriptor
DownloadCall(f, tr, tid) ==
    /\ FreeTemp(tid)
    /\ LET d == DownloadFile(use_cache, root_exists, cache, temps, f, tr, tid)
       IN  /\ cache' = d.cache
           /\ temps' = d.temps
           /\ partial' = Leftovers(d, f, tr)
           /\ last' = Op("download", d.outcome, NoResp, f, d.outcome = "ok",
                         d.hit, d.net, d.path)
    /\ UNCHANGED <<use_cache, root_exists, current_data>>

\* mutant: a listing that is not found is treated as an empty listing
LoadNotFoundAsEmpty(resp) ==
    /\ resp.status # 200
    /\ last' = NoDownload("load", "FileNotFoundError", resp)
    /\ UNCHANGED <<use_cache, root_exists, cache, temps, partial, current_data>>

\* load, when the listing request does not answer 200: raise ValueError
LoadNotFound(resp) ==
    /\ resp.status # 200
    /\ last' = NoDownload("load", "ValueError", resp)
    /\ UNCHANGED <<use_cache, root_exists, cache, temps, partial, current_data>>

\* load, when the selection step raises (FileNotFoundError: no candidates)
LoadNoCandidate(resp, p) ==
    /\ resp.status = 200
    /\ Selected[resp][p].kind # "ok"
    /\ last' = NoDownload("load", Selected[resp][p].kind, resp)
    /\ UNCHANGED <<use_cache, root_exists, cache, temps, partial, current_data>>

\* load, from the download step on: tr is how the transfer goes, parse_ok
\* whether the parser accepts the file, tid the name tempfile.mktemp() returns
LoadFile(resp, p, tr, parse_ok, tid) ==
    /\ resp.status = 200
    /\ Selected[resp][p].kind = "ok"
    /\ FreeTemp(tid)
    /\ LET f == Selected[resp][p].file
           d == DownloadFile(use_cache, root_exists, cache, temps, f, tr, tid)
       IN  /\ cache' = d.cache
           /\ partial' = Leftovers(d, f, tr)
           /\ IF d.outcome # "ok"
              THEN \* _download_file raised
                   /\ last' = Op("load", d.outcome, resp, f, FALSE, d.hit, d.net, d.path)
                   /\ temps' = d.temps
                   /\ UNCHANGED current_data
              ELSE IF ~parse_ok
              THEN \* _read_file raised: the unlink is not reached
                   /\ last' = Op("load", "ParseError", resp, f, TRUE, d.hit, d.net, d.path)
                   /\ temps' = d.temps
                   /\ UNCHANGED current_data
              ELSE \* if not self.use_cache and filepath.exists(): filepath.unlink()
                   /\ last' = Op("load", "ok", resp, f, TRUE, d.hit, d.net, d.path)
                   /\ temps' = IF ~use_cache /\ d.path.kind = "temp"
                               THEN d.temps \ {d.path.id}
                               ELSE d.temps
                   /\ current_data' = [format |-> Formats[d.path],
                                       data |-> d.content.data]
    /\ UNCHANGED <<use_cache, root_exists>>

\* mutant: clear_cache does nothing on an explorer that does not cache
ClearCacheIfCaching ==
    /\ cache' = IF root_exists /\ use_cache THEN NoEntries ELSE cache
    /\ partial' = IF root_exists /\ use_cache THEN NoEntries ELSE partial
    /\ last' = NoDownload("clear_cache", "ok", NoResp)
    /\ UNCHANGED <<use_cache, root_exists, temps, current_data>>

\* clear_cache(): rmtree and mkdir, only if CACHE_DIR exists
ClearCache ==
    /\ cache' = IF root_exists THEN NoEntries ELSE cache
    /\ partial' = IF root_exists THEN NoEntries ELSE partial
    /\ last' = [NoDownload("clear_cache", "ok", NoResp) EXCEPT !.removed =
                    IF root_exists
                    THEN Cardinality({n \in CacheNames : cache[n].exists})
                    ELSE 0]
    /\ UNCHANGED <<use_cache, root_exists, temps, current_data>>

IdleSelect == /\ files = <<>>
              /\ file_pattern = NoPattern
              /\ sel_pc = "idle"
              /\ best = [kind |-> "none", file |-> NoFile]

Writers == {1, 2}

IdleRace == /\ pc = [w \in Writers |-> "idle"]
            /\ body = [w \in Writers |-> <<>>]
            /\ off = [w \in Writers |-> 0]
            /\ disk = Absent
            /\ order = <<>>
            /\ wdone = <<>>
            /\ alone = [w \in Writers |-> FALSE]

\* what earlier processes can have left in the cache root
LeftBehind == { NoEntries,
                [NoEntries EXCEPT ![ProteinTSV] = Present(Body("u1"))] }

\* __init__(verbose, use_cache) on a machine where CACHE_DIR existed or not:
\* mkdir(exist_ok=True) when use_cache; current_data = None
Constructed(uc, root_before, entries) ==
    /\ use_cache = uc
    /\ root_exists = (root_before \/ uc)
    /\ cache = IF root_before THEN entries ELSE NoEntries
    /\ temps = {}
    /\ current_data = NoTable
    /\ last = [op |-> "init", outcome |-> "ok", resp |-> NoResp, file |-> NoFile,
               returned |-> FALSE, hit |-> FALSE, net |-> 0, path |-> NoPath,
               removed |-> 0, tick |-> 0]
    /\ partial = NoEntries

Init ==
    /\ \E uc \in BOOLEAN, root_before \in BOOLEAN, entries \in LeftBehind :
           Constructed(uc, root_before, entries)
    /\ IdleSelect
    /\ IdleRace

Next ==
    \/ \E f \in Descriptors, tr \in Transfers, tid \in TempIds :
           DownloadCall(f, tr, tid) /\ UNCHANGED <<sel_vars, race_vars>>
    \/ \E resp \in ListingResponses :
           LoadNotFound(resp) /\ UNCHANGED <<sel_vars, race_vars>>
    \/ \E resp \in ListingResponses, p \in LoadPatterns :
           LoadNoCandidate(resp, p) /\ UNCHANGED <<sel_vars, race_vars>>
    \/ \E resp \in ListingResponses, p \in LoadPatterns, tr \in Transfers,
          parse_ok \in BOOLEAN, tid \in TempIds :
           LoadFile(resp, p, tr, parse_ok, tid) /\ UNCHANGED <<sel_vars, race_vars>>
    \/ ClearCache /\ UNCHANGED <<sel_vars, race_vars>>

Spec == Init /\ [][Next]_vars

----------------------------------------------------------------------------
(* The selection step of load on every listing up to MaxFiles files *)

IdleMain == Constructed(FALSE, FALSE, NoEntries)

InitSelect ==
    /\ files \in Listings
    /\ file_pattern \in Patterns
    /\ sel_pc = "start"
    /\ best = [kind |-> "none", file |-> NoFile]
    /\ IdleMain
    /\ IdleRace

\* lines 153-184 of load
SelectStep ==
    /\ sel_pc = "start"
    /\ best' = Select(files, file_pattern)
    /\ sel_pc' = "done"
    /\ UNCHANGED <<files, file_pattern, main_vars, race_vars>>

NextSelect == SelectStep

SpecSelect == InitSelect /\ [][NextSelect]_vars

----------------------------------------------------------------------------
(* Claims about the selection step (checked under SpecSelect) *)

Range(s) == {s[i] : i \in 1..Len(s)}

\* the least index of a sequence whose element satisfies a test
First(s, Test(_)) ==
    CHOOSE i \in 1..Len(s) : Test(s[i]) /\ \A j \in 1..(i - 1) : ~Test(s[j])

\* the candidate set of a finished selection step: the eligible files,
\* narrowed by the pattern
Cands == Narrow(Candidates(files), file_pattern)

\* the suffixes _read_file tells apart: delimited text, plain or
\* gzip-compressed, and spreadsheets
TabularSuffixes ==
    Range(tab_exts) \cup {csv_ext} \cup Range(xl_exts)
    \cup {t \o gz_ext : t \in Range(tab_exts) \cup {csv_ext}}

\* C1's eligible subset: a recognized tabular suffix and more than 50,000 bytes
TabularAndLarge(f) ==
    /\ \E suf \in TabularSuffixes : EndsWith(Lower(f.fileName), suf)
    /\ f.fileSizeBytes > MinTableSize

\* C1 (as stated): whenever the listing holds a file of more than 50,000
\* bytes whose name ends in a recognized tabular suffix (delimited text, plain
\* or gzip-compressed, or a spreadsheet suffix), the selection step does not
\* fail and chooses a member of that eligible subset.
C1_SelectsEligible ==
    (sel_pc = "done" /\ \E f \in Range(files) : TabularAndLarge(f))
        => /\ best.kind = "ok"
           /\ best.file \in Range(files)
           /\ TabularAndLarge(best.file)

\* what holds of the code in place of C1: for the suffixes of table_exts the
\* selection step does not fail and never chooses an ineligible file
C1_SelectsFromTableExts ==
    sel_pc = "done" =>
        /\ (\E f \in Range(files) : Eligible(f)) <=> best.kind = "ok"
        /\ best.kind = "ok" => (best.file \in Range(files) /\ Eligible(best.file))
        /\ best.kind # "ok" => best.kind = "FileNotFoundError"

HasKeyword(f, k) == Contains(priority_keywords[k], Lower(f.fileName))

\* C2: when a candidate's name contains keyword k and no candidate's name
\* contains an earlier keyword, the chosen file is the first candidate in
\* listing order whose name contains k.
C2_KeywordPrecedence ==
    sel_pc = "done" =>
        \A k \in 1..Len(priority_keywords) :
            ( /\ \E f \in Range(Cands) : HasKeyword(f, k)
              /\ \A e \in 1..(k - 1) : \A f \in Range(Cands) : ~HasKeyword(f, e) )
            => /\ best.kind = "ok"
               /\ best.file = Cands[First(Cands, LAMBDA f : HasKeyword(f, k))]

\* C2's case: a smaller file with an earlier keyword (quant) is chosen over a
\* larger file listed before it that has only later keywords (result, diann)
C2_Witness ==
    /\ sel_pc = "done"
    /\ Len(files) >= 2
    /\ HasKeyword(files[1], 6) /\ ~HasKeyword(files[1], 4)
    /\ Eligible(files[1])
    /\ HasKeyword(best.file, 4)
    /\ best.file # files[1]
    /\ best.file.fileSizeBytes < files[1].fileSizeBytes

\* the pattern is non-empty and contained in the name of no eligible file
PatternMisses ==
    /\ file_pattern.given
    /\ file_pattern.text # <<>>
    /\ \A f \in Range(files) :
           Eligible(f) => ~Contains(Lower(file_pattern.text), Lower(f.fileName))

\* C3: with a non-empty pattern that no eligible file's name contains, the
\* selection step chooses what a call without pattern chooses, and does not
\* fail when the eligible set is non-empty.
C3_PatternMissFallback ==
    (sel_pc = "done" /\ PatternMisses)
        => /\ best = Select(files, NoPattern)
           /\ (\E f \in Range(files) : Eligible(f)) => best.kind = "ok"

\* C3's case: a pattern that misses every eligible file, and a file chosen
C3_Witness ==
    /\ sel_pc = "done"
    /\ PatternMisses
    /\ best.kind = "ok"
    /\ Len(Candidates(files)) >= 2

NoKeywordAtAll ==
    \A f \in Range(Cands) : \A k \in 1..Len(priority_keywords) : ~HasKeyword(f, k)

\* C4: when no candidate's name contains a priority keyword, the chosen file
\* is a candidate of maximum size, the first of them in listing order.
C4_FallbackToLargest ==
    (sel_pc = "done" /\ Cands # <<>> /\ NoKeywordAtAll)
        => /\ best.kind = "ok"
           /\ \A f \in Range(Cands) : f.fileSizeBytes <= best.file.fileSizeBytes
           /\ best.file = Cands[First(Cands, LAMBDA f :
                    \A g \in Range(Cands) : g.fileSizeBytes <= f.fileSizeBytes)]

\* C4's case: two candidates without keyword share the maximum size, a
\* smaller one is listed too, and the first of the two largest is chosen
C4_Witness ==
    /\ sel_pc = "done"
    /\ NoKeywordAtAll
    /\ \E i, j \in 1..Len(Cands) :
           /\ i < j
           /\ Cands[i] # Cands[j]
           /\ Cands[i].fileSizeBytes = Cands[j].fileSizeBytes
           /\ best.file = Cands[i]
    /\ \E f \in Range(Cands) : f.fileSizeBytes < best.file.fileSizeBytes

----------------------------------------------------------------------------
(* Claims about one explorer object (checked under Spec) *)

\* the last operation ran the download step (of load or directly)
Downloaded(op) == op.op \in {"load", "download"} /\ op.file # NoFile

\* C5: with caching enabled, two successive calls of the download step for
\* the same descriptor that both return make at most one request in total,
\* return the same cache path, and leave the same content at that path.
C5_CacheIdempotence ==
    [][ ( /\ use_cache
          /\ Downloaded(last) /\ last.returned
          /\ Downloaded(last') /\ last'.returned
          /\ last'.file = last.file )
        => /\ last.net + last'.net <= 1
           /\ last'.path = last.path
           /\ last.path = CachePath(last.file.fileName)
           /\ cache[last.file.fileName].exists
           /\ cache'[last.file.fileName] = cache[last.file.fileName] ]_vars

\* C5's case: a cache hit on an entry that only an earlier transfer of the
\* same descriptor by this explorer can have written
C5_Witness ==
    /\ use_cache
    /\ Downloaded(last) /\ last.returned /\ last.hit /\ last.net = 0
    /\ last.file.fileName = BigXlsx
    /\ cache[BigXlsx] = Present(Body(last.file.downloadLink))

\* C6: load fails with ValueError (project not found) when the listing request
\* does not answer 200 and with FileNotFoundError (no candidate) when the
\* listing holds no eligible file; either way no download request is made and
\* the cache root, the temporary files and current_data stay as they were.
C6_ErrorsBeforeDownload ==
    /\ [](last.op = "load" =>
            /\ last.resp.status = 404 => last.outcome = "ValueError"
            /\ (last.resp.status = 200 /\ \A f \in Range(last.resp.files) : ~Eligible(f))
                   => last.outcome = "FileNotFoundError"
            /\ last.outcome \in {"ValueError", "FileNotFoundError"}
                   => last.net = 0 /\ last.file = NoFile /\ ~last.returned)
    /\ [][ (last'.op = "load" /\ last'.outcome \in {"ValueError", "FileNotFoundError"})
           => /\ cache' = cache
              /\ root_exists' = root_exists
              /\ temps' = temps
              /\ current_data' = current_data ]_vars

\* C6's case: a table was loaded, and a later load failed before any download
C6_Witness ==
    /\ last.op = "load"
    /\ last.outcome = "FileNotFoundError"
    /\ last.resp.status = 200
    /\ Len(last.resp.files) > 0
    /\ current_data # NoTable
    /\ \E n \in CacheNames : cache[n].exists

\* C7: with caching disabled the download step of load makes a transfer into
\* a temporary file and neither uses nor changes the cache root, also when an
\* entry with the chosen name exists; once load has returned its table, the
\* temporary file is gone.
C7_NoCacheWhenDisabled ==
    /\ []((~use_cache /\ Downloaded(last))
            => /\ ~last.hit
               /\ last.net = 1
               /\ last.returned => last.path.kind = "temp")
    /\ []((~use_cache /\ last.op = "load" /\ last.outcome = "ok")
            => /\ last.path.kind = "temp"
               /\ last.path.id \notin temps)
    /\ [][ (~use_cache /\ Downloaded(last'))
           => cache' = cache /\ root_exists' = root_exists ]_vars

\* C7's case: caching disabled, an entry with the chosen name in the cache
\* root, and load returned the table parsed from the transferred bytes
C7_Witness ==
    /\ ~use_cache
    /\ last.op = "load" /\ last.outcome = "ok"
    /\ cache[last.file.fileName].exists
    /\ last.file.downloadLink = "u10"
    /\ current_data.data = Body("u10")
    /\ cache[last.file.fileName].data # current_data.data
    /\ temps = {}

\* C8 (as stated): after clear_cache the cache root exists and is empty.
C8_ClearLeavesEmptyRoot ==
    last.op = "clear_cache" => (root_exists /\ cache = NoEntries)

\* C8 (amended): clear_cache leaves no entry in the cache root and the root
\* exists afterwards exactly when it existed before, which it does whenever
\* caching is enabled; the download step that follows on an explorer with
\* caching enabled is a cache miss that makes a request.
C8_ClearEmptiesExistingRoot ==
    /\ [][ last'.op = "clear_cache"
           => /\ cache' = NoEntries
              /\ root_exists' = root_exists ]_vars
    /\ [](use_cache => root_exists)
    /\ [][ (last.op = "clear_cache" /\ use_cache /\ Downloaded(last'))
           => ~last'.hit /\ last'.net = 1 ]_vars

\* C8's case: clear_cache deleted entries of an existing root
C8_Witness ==
    /\ last.op = "clear_cache"
    /\ last.removed > 0
    /\ root_exists
    /\ cache = NoEntries

\* C10: with caching enabled, what a broken transfer wrote stays in the cache
\* root under the file's name, and every later download step for that name
\* returns it as a cache hit without a request, until clear_cache.
C10_TruncatedEntryIsReused ==
    /\ [](\A n \in CacheNames :
            partial[n].exists
                => /\ use_cache
                   /\ cache[n] = partial[n]
                   /\ Len(partial[n].data) < MaxChunks)
    /\ [][ \A n \in CacheNames :
             (partial[n].exists /\ Downloaded(last') /\ last'.file.fileName = n)
                 => /\ last'.hit /\ last'.net = 0 /\ last'.returned
                    /\ last'.path = CachePath(n)
                    /\ cache'[n] = partial[n] ]_vars

\* C10's case: a transfer broke after its first chunk, and a later load
\* parsed the truncated entry from the cache
C10_Witness ==
    /\ use_cache
    /\ last.op = "load" /\ last.outcome = "ok" /\ last.hit
    /\ partial[last.file.fileName].exists
    /\ Len(partial[last.file.fileName].data) = 1
    /\ current_data.data = partial[last.file.fileName].data

----------------------------------------------------------------------------
(* Two executions of _download_file with caching enabled, for the same file
   name, step by step: the existence test, the request, open(), one write
   per chunk, and the close at the end of the with block *)

\* what the two requests can answer: bodies of 1..MaxBody chunks
Bodies == UNION {[1..n -> {"x", "y"}] : n \in 1..MaxBody}

\* the zero bytes a write beyond the end of the file leaves before it
Hole == "0"

Other(w) == CHOOSE v \in Writers : v # w

\* the file after a write of chunk ch at offset o (in chunks)
WriteAt(data, o, ch) ==
    [i \in 1..(IF o + 1 > Len(data) THEN o + 1 ELSE Len(data)) |->
        IF i = o + 1 THEN ch
        ELSE IF i <= Len(data) THEN data[i]
        ELSE Hole]

InitRace ==
    /\ pc = [w \in Writers |-> "check"]
    /\ body \in [Writers -> Bodies]
    /\ off = [w \in Writers |-> 0]
    /\ disk = Absent
    /\ order = <<>>
    /\ wdone = <<>>
    /\ alone = [w \in Writers |-> FALSE]
    /\ Constructed(TRUE, FALSE, NoEntries)
    /\ IdleSelect

\* if self.use_cache and cache_path.exists(): return cache_path
Check(w) ==
    /\ pc[w] = "check"
    /\ IF use_cache /\ disk.exists
       THEN /\ pc' = [pc EXCEPT ![w] = "hit"]
            /\ order' = Append(order, w)
       ELSE /\ pc' = [pc EXCEPT ![w] = "get"]
            /\ UNCHANGED order
    /\ UNCHANGED <<body, off, disk, wdone, alone>>

\* response = requests.get(url, stream=True); response.raise_for_status()
Get(w) ==
    /\ pc[w] = "get"
    /\ pc' = [pc EXCEPT ![w] = "open"]
    /\ UNCHANGED <<body, off, disk, order, wdone, alone>>

\* mutant: the path is opened without truncating it
OpenKeep(w) ==
    /\ pc[w] = "open"
    /\ disk' = IF disk.exists THEN disk ELSE Present(<<>>)
    /\ off' = [off EXCEPT ![w] = 0]
    /\ alone' = [alone EXCEPT ![w] = TRUE, ![Other(w)] = FALSE]
    /\ pc' = [pc EXCEPT ![w] = "write"]
    /\ UNCHANGED <<body, order, wdone>>

\* open(save_path, 'wb'): create or truncate, own offset 0
Open(w) ==
    /\ pc[w] = "open"
    /\ disk' = Present(<<>>)
    /\ off' = [off EXCEPT ![w] = 0]
    /\ alone' = [alone EXCEPT ![w] = TRUE, ![Other(w)] = FALSE]
    /\ pc' = [pc EXCEPT ![w] = "write"]
    /\ UNCHANGED <<body, order, wdone>>

\* f.write(chunk), for the next chunk of the body
Write(w) ==
    /\ pc[w] = "write"
    /\ off[w] < Len(body[w])
    /\ disk' = Present(WriteAt(disk.data, off[w], body[w][off[w] + 1]))
    /\ off' = [off EXCEPT ![w] = off[w] + 1]
    /\ alone' = [alone EXCEPT ![Other(w)] = FALSE]
    /\ wdone' = IF off[w] + 1 = Len(body[w]) THEN Append(wdone, w) ELSE wdone
    /\ UNCHANGED <<pc, body, order>>

\* the end of the with block, and return save_path
Close(w) ==
    /\ pc[w] = "write"
    /\ off[w] = Len(body[w])
    /\ pc' = [pc EXCEPT ![w] = "done"]
    /\ order' = Append(order, w)
    /\ UNCHANGED <<body, off, disk, wdone, alone>>

NextRace ==
    \/ \E w \in Writers : Check(w) /\ UNCHANGED <<sel_vars, main_vars>>
    \/ \E w \in Writers : Get(w) /\ UNCHANGED <<sel_vars, main_vars>>
    \/ \E w \in Writers : Open(w) /\ UNCHANGED <<sel_vars, main_vars>>
    \/ \E w \in Writers : Write(w) /\ UNCHANGED <<sel_vars, main_vars>>
    \/ \E w \in Writers : Close(w) /\ UNCHANGED <<sel_vars, main_vars>>

SpecRace == InitRace /\ [][NextRace]_vars

----------------------------------------------------------------------------
(* Claims about the race of two writers (checked under SpecRace) *)

BothWrote == \A w \in Writers : pc[w] = "done"

\* C9 (as stated): once both writers have finished, the entry holds the
\* complete body of the writer that finished second -- read in its favour:
\* of the writer that returned second, or of the one that wrote its last
\* chunk second.
C9_SecondFinisherWins ==
    BothWrote => \/ disk = Present(body[order[2]])
                 \/ disk = Present(body[wdone[2]])

\* C9 (amended): once both writers have finished, the entry holds the complete
\* body of the writer that finished second if the other writer neither opened
\* the path nor wrote a chunk after that writer opened it; in every case each
\* chunk of the entry is the chunk one of the two bodies has at that place, or
\* the zero bytes of a gap.
C9_LastOpenerWins ==
    BothWrote =>
        /\ alone[order[2]] => disk = Present(body[order[2]])
        /\ disk.exists
        /\ \A i \in 1..Len(disk.data) :
               \/ disk.data[i] = Hole
               \/ \E w \in Writers : i <= Len(body[w]) /\ disk.data[i] = body[w][i]

\* C9's case: two different bodies, the second finisher opened the path after
\* the first one's last write, and the entry holds the second finisher's body
C9_Witness ==
    /\ BothWrote
    /\ alone[order[2]]
    /\ Len(body[order[1]]) > Len(body[order[2]])
    /\ disk = Present(body[order[2]])

====
